---- MODULE Spec2Model ----
(***************************************************************************)
(* Model of the paginated fetch of jira/client.py (JIRA._fetch_pages and   *)
(* its helpers) run against a listing endpoint.  One behaviour is one call *)
(* of _fetch_pages: the arguments and the server are drawn in Init, the    *)
(* actions are the steps of the call.                                      *)
(***************************************************************************)
EXTENDS Integers, Sequences, FiniteSets, TLC

\* ---------------------------------------------------------------- bounds
MaxTotal == 5       \* the server holds 0..MaxTotal records
MaxPageSize == 2    \* the server's default (and largest) page size is 1..MaxPageSize
MaxStartAt == 1     \* the caller's startAt is 0..MaxStartAt
MaxMaxResults == 2  \* the caller's maxResults is 0..MaxMaxResults (0: fetch all)
MaxRequests == 8    \* a call is followed through its first MaxRequests requests

\* ------------------------------------------------------- python values
\* Python's None where an integer may stand (dict.get of an absent key,
\* an unset argument, a key absent from a dict of query parameters).
None == -1

Min(a, b) == IF a < b THEN a ELSE b

\* Truthiness of an integer argument: `if startAt:`, `if maxResults:`,
\* `not maxResults`, `x or y`.
Truthy(n) == n # None /\ n # 0

Or(a, b) == IF Truthy(a) THEN a ELSE b

\* A dict of query parameters over the keys the model uses.  `none` tells the
\* value None from a dict; a key whose value is None is absent.
NoParams == [none |-> TRUE, startAt |-> None, maxResults |-> None, expand |-> None]
EmptyDict == [none |-> FALSE, startAt |-> None, maxResults |-> None, expand |-> None]

\* `if params`: None and the empty dict are falsy.
TruthyDict(d) == ~d.none /\ (d.startAt # None \/ d.maxResults # None \/ d.expand # None)

\* ------------------------------------------------------------ the server
\* A page response body (the value json_loads returns).  kind "dict" is a
\* JSON object whose keys are the fields that are not absent (hasItems: the
\* items array is present under the key "values"); kind "list" is a bare
\* JSON array of the records in `items`.
EmptyBody ==
    [kind |-> "dict", hasItems |-> FALSE, items |-> << >>, startAt |-> None,
     maxResults |-> None, total |-> None, isLast |-> "absent"]

\* The records i with lo <= i < hi, in order; record i is the i-th record the
\* server holds (zero-based).
Window(lo, hi) == [k \in 1..(IF hi > lo THEN hi - lo ELSE 0) |-> lo + k - 1]

\* Offsets at which a server may answer with an empty body.
EmptyOffsets == {2, 4}

\* Offsets at which a server may answer with an object that has no items
\* key, or at which the GET may fail at transport level.
FaultOffsets == {0, 2}

\* What _get_json and future.result() give when the GET fails at transport
\* level (connection error, error status): no body, an exception.
TransportFailure ==
    [kind |-> "fail", hasItems |-> FALSE, items |-> << >>, startAt |-> None,
     maxResults |-> None, total |-> None, isLast |-> "absent"]

\* A server misbehaves at one offset at most.  reportsZero: the maxResults
\* field of its responses is 0 whatever the size of the page.
Servers ==
    {srv \in [shape : {"dict"}, count : 0..MaxTotal, pageSize : 1..MaxPageSize,
              sendsTotal : BOOLEAN, sendsMaxResults : BOOLEAN, sendsIsLast : BOOLEAN,
              emptyAt : {None} \cup EmptyOffsets,
              keylessAt : {None} \cup FaultOffsets,
              failAt : {None} \cup FaultOffsets,
              reportsZero : BOOLEAN] :
        /\ srv.emptyAt # None => (srv.keylessAt = None /\ srv.failAt = None)
        /\ srv.keylessAt # None => srv.failAt = None
        /\ srv.reportsZero =>
              /\ srv.sendsMaxResults
              /\ srv.emptyAt = None /\ srv.keylessAt = None /\ srv.failAt = None}
    \cup
    [shape : {"list"}, count : 0..MaxTotal, pageSize : 1..MaxPageSize,
     sendsTotal : {FALSE}, sendsMaxResults : {FALSE}, sendsIsLast : {FALSE},
     emptyAt : {None}, keylessAt : {None}, failAt : {None}, reportsZero : {FALSE}]

\* What the listing endpoint answers to a GET with the query parameters q:
\* the window [startAt, startAt + maxResults) of its records, startAt
\* defaulting to 0 and maxResults to the server's page size, which also caps it.
Respond(srv, q) ==
    LET s == IF q.startAt = None THEN 0 ELSE q.startAt
        m == IF q.maxResults = None THEN srv.pageSize ELSE Min(q.maxResults, srv.pageSize)
        recs == Window(s, Min(s + m, srv.count))
    IN  IF s = srv.emptyAt THEN EmptyBody
        ELSE IF s = srv.failAt THEN TransportFailure
        ELSE IF srv.shape = "list"
        THEN [kind |-> "list", hasItems |-> FALSE, items |-> recs, startAt |-> None,
              maxResults |-> None, total |-> None, isLast |-> "absent"]
        ELSE [kind |-> "dict", hasItems |-> (s # srv.keylessAt),
              items |-> IF s # srv.keylessAt THEN recs ELSE << >>, startAt |-> s,
              maxResults |-> IF ~srv.sendsMaxResults THEN None
                             ELSE IF srv.reportsZero THEN 0 ELSE m,
              total |-> IF srv.sendsTotal THEN srv.count ELSE None,
              isLast |-> IF ~srv.sendsIsLast THEN "absent"
                         ELSE IF s + m >= srv.count THEN "true" ELSE "false"]

\* ----------------------------------------------------- the call's state
VARIABLES
    async_class,      \* TRUE: options["async"] is set and FuturesSession imports
    items_key,        \* "values", or "None" for a response that is the array itself
    startAt,          \* argument
    maxResults,       \* argument; 0 is the falsy value that asks for all items
    params,           \* argument: NoParams (None) or a dict
    server,           \* the endpoint the call talks to
    base,             \* argument: the URL template the path is put in
    pc,               \* "start", "async", "while", "return", "done", "raised"
    page_params,      \* the dict of query parameters last built
    items,            \* the accumulated items (each the raw record it wraps)
    next_items_page,  \* the items of the page last folded in
    total, is_last, start_at_from_response, max_results_from_response,
    page_size, page_start,
    async_fetches,    \* the futures, in the order they were issued
    collected,        \* how many futures the collecting loop has consumed
    completed,        \* indexes of the futures the workers have finished, in that order
    requests,         \* every GET issued so far (its query parameters), in issue order
    urls,             \* the URL of each of these GETs
    responses,        \* the bodies the calling thread has read, in that order
    item_offsets,     \* for each element of items, the offset of the request that gave it
    result,           \* the ResultList returned (meaningful when pc = "done")
    error,            \* the exception raised (meaningful when pc = "raised")
    error_body        \* the body quoted in the exception's message, if any

args == <<async_class, items_key, startAt, maxResults, params, server, base>>
locals == <<page_params, items, next_items_page, total, is_last,
            start_at_from_response, max_results_from_response, page_size, page_start>>
futures == <<async_fetches, collected, completed>>
history == <<requests, urls, responses, item_offsets>>
pager_vars == <<args, locals, futures, history, pc, result, error, error_body>>

\* ------------------------------------- the state of a cookie-auth session
VARIABLES
    get_session,      \* what JiraCookieAuth._get_session is bound to
    cookies,          \* the cookie jar of the session (self._session.cookies)
    stack,            \* the frames of Session.send on the caller's thread, innermost last
    sent,             \* the requests sent through the session, in order
    answers,          \* answers[i]: the status of the response to sent[i]
    logins,           \* the calls of _get_session made by the hook, in order
    auth_pc,          \* "idle", "calling", "done" or "raised": the caller's request
    received,         \* the index in sent of the response the caller got
    auth_error        \* the exception the caller got

auth_vars == <<get_session, cookies, stack, sent, answers, logins, auth_pc, received,
               auth_error>>

\* ------------------- worker threads sending through one cookie-auth session
\* The threads of the executor that send requests through the shared session.
Workers == {1, 2}

VARIABLES
    worker_stack,     \* per worker: the frames of Session.send on its thread, innermost last
    worker_pc         \* per worker: "idle", "calling", "done" or "raised"

worker_vars == <<worker_stack, worker_pc>>

\* No worker has a request under way.
WorkersIdle ==
    /\ worker_stack = [w \in Workers |-> << >>]
    /\ worker_pc = [w \in Workers |-> "idle"]

\* A client on which no request is under way.
AuthIdle ==
    /\ WorkersIdle
    /\ get_session = "JIRA.session"
    /\ cookies = [JSESSIONID |-> 0, xsrf |-> 0]
    /\ stack = << >>
    /\ sent = << >>
    /\ answers = << >>
    /\ logins = << >>
    /\ auth_pc = "idle"
    /\ received = None
    /\ auth_error = "none"

\* The URL templates callers pass as base: the default one and the one of
\* the agile endpoints (boards, sprints).
JIRA_BASE_URL == "Resource.JIRA_BASE_URL"
AGILE_BASE_URL == "GreenHopperResource.AGILE_BASE_URL"
Bases == {JIRA_BASE_URL, AGILE_BASE_URL}

\* The path of the listing endpoint.
request_path == "board"

\* _get_url: the template with the path put in.
GetUrl(path, _base) == [base |-> _base, path |-> path]

\* The parameters callers pass: nothing (None), an empty dict, a filter.
ParamsChoices == {NoParams, EmptyDict, [EmptyDict EXCEPT !.expand = 1]}

\* ResultList.__init__: a list of the items with the pagination fields.
ResultList(iterable, _startAt, _maxResults, _total, _isLast) ==
    [items |-> iterable, startAt |-> _startAt, maxResults |-> _maxResults,
     isLast |-> _isLast, total |-> _total]

NoResult == ResultList(<< >>, 0, 0, 0, FALSE)

Init ==
    /\ async_class \in BOOLEAN
    /\ items_key \in {"values", "None"}
    /\ startAt \in 0..MaxStartAt
    /\ maxResults \in 0..MaxMaxResults
    /\ params \in ParamsChoices
    /\ server \in Servers
    /\ base \in Bases
    \* callers pass items_key None for the endpoints that answer with an array
    \* (search_users and the like), and only for those
    /\ items_key = "None" => server.shape = "list"
    /\ pc = "start"
    /\ page_params = EmptyDict
    /\ items = << >>
    /\ next_items_page = << >>
    /\ total = None
    /\ is_last = FALSE
    /\ start_at_from_response = 0
    /\ max_results_from_response = 0
    /\ page_size = 0
    /\ page_start = 0
    /\ async_fetches = << >>
    /\ collected = 0
    /\ completed = << >>
    /\ requests = << >>
    /\ urls = << >>
    /\ responses = << >>
    /\ item_offsets = << >>
    /\ result = NoResult
    /\ error = "none"
    /\ error_body = << >>
    /\ AuthIdle

\* ----------------------------------------------------------- the helpers
\* The keys of a JSON object in the order the server writes them, as the raw
\* values a loop over the dict yields (coded below zero to tell them from
\* the records).
DictKeys(resource) ==
    (IF resource.maxResults # None THEN << -2 >> ELSE << >>)
    \o (IF resource.startAt # None THEN << -3 >> ELSE << >>)
    \o (IF resource.total # None THEN << -4 >> ELSE << >>)
    \o (IF resource.isLast # "absent" THEN << -5 >> ELSE << >>)
    \o (IF resource.hasItems THEN << -6 >> ELSE << >>)

\* TruthyBody with the test `if resource:` dropped.
TruthyBody_always(resource) == TRUE

\* `if resource:`: an empty object and an empty array are falsy.
TruthyBody(resource) ==
    IF resource.kind = "list" THEN resource.items # << >>
    ELSE DictKeys(resource) # << >>

\* GetItemsFromPage with the KeyError left as the bare key, without the body.
GetItemsFromPage_noBody(key, resource) ==
    IF key # "None"
    THEN IF resource.kind = "list"
         THEN [err |-> "TypeError", items |-> << >>, msg |-> << >>]
         ELSE IF ~resource.hasItems
         THEN [err |-> "KeyError", items |-> << >>, msg |-> << >>]
         ELSE [err |-> "none", items |-> resource.items, msg |-> << >>]
    ELSE IF resource.kind = "list"
         THEN [err |-> "none", items |-> resource.items, msg |-> << >>]
         ELSE [err |-> "none", items |-> DictKeys(resource), msg |-> << >>]

\* _get_items_from_page: one item per raw record of resource[items_key], or of
\* resource itself when items_key is falsy.  A missing key raises KeyError;
\* indexing an array by a string raises TypeError, which is not caught.
\* The KeyError is raised again with json.dumps(resource) in its message (msg).
GetItemsFromPage(key, resource) ==
    IF key # "None"
    THEN IF resource.kind = "list"
         THEN [err |-> "TypeError", items |-> << >>, msg |-> << >>]
         ELSE IF ~resource.hasItems
         THEN [err |-> "KeyError", items |-> << >>, msg |-> << resource >>]
         ELSE [err |-> "none", items |-> resource.items, msg |-> << >>]
    ELSE IF resource.kind = "list"
         THEN [err |-> "none", items |-> resource.items, msg |-> << >>]
         ELSE [err |-> "none", items |-> DictKeys(resource), msg |-> << >>]

\* PageError with a failed GET read as a page without error.
PageError_swallowed(key, resource) ==
    IF resource.kind = "fail"
    THEN [err |-> "none", msg |-> << >>]
    ELSE [err |-> GetItemsFromPage(key, resource).err,
          msg |-> GetItemsFromPage(key, resource).msg]

\* What reading one page ends in: the exception of the transport, that of
\* _get_items_from_page, or "none".
PageError(key, resource) ==
    IF resource.kind = "fail"
    THEN [err |-> "TransportError", msg |-> << >>]
    ELSE [err |-> GetItemsFromPage(key, resource).err,
          msg |-> GetItemsFromPage(key, resource).msg]

\* FirstParams without lines 637-638: maxResults is not put in the request.
FirstParams_noMaxResults(p, start, maxRes) ==
    LET copy == IF TruthyDict(p) THEN [p EXCEPT !.none = FALSE] ELSE EmptyDict
    IN  IF Truthy(start) THEN [copy EXCEPT !.startAt = start] ELSE copy

\* Lines 634-638: the query parameters of the first request.
FirstParams(p, start, maxRes) ==
    LET copy == IF TruthyDict(p) THEN [p EXCEPT !.none = FALSE] ELSE EmptyDict
        withStart == IF Truthy(start) THEN [copy EXCEPT !.startAt = start] ELSE copy
    IN  IF Truthy(maxRes) THEN [withStart EXCEPT !.maxResults = maxRes] ELSE withStart

\* FirstMeta without the branch of lines 652-657: an array is read like a dict.
FirstMeta_dictOnly(resource) ==
    [total |-> resource.total,
     is_last |-> (resource.isLast = "true"),
     start_at |-> IF resource.startAt = None THEN 0 ELSE resource.startAt,
     max_results |-> IF resource.maxResults = None THEN 1 ELSE resource.maxResults]

\* Lines 646-657: the pagination fields read off the first response.
FirstMeta(resource) ==
    IF resource.kind = "dict"
    THEN [total |-> resource.total,
          is_last |-> (resource.isLast = "true"),
          start_at |-> IF resource.startAt = None THEN 0 ELSE resource.startAt,
          max_results |-> IF resource.maxResults = None THEN 1 ELSE resource.maxResults]
    ELSE [total |-> 1, is_last |-> TRUE, start_at |-> 0, max_results |-> 1]

\* The offset a request asks for: an absent startAt is offset 0.
OffsetOf(q) == IF q.startAt = None THEN 0 ELSE q.startAt

Repeat(n, v) == [k \in 1..n |-> v]

Raise(e, msg) ==
    /\ pc' = "raised"
    /\ error' = e
    /\ error_body' = msg
    /\ UNCHANGED result

\* Lines 663-667: whether the remaining pages are fetched through futures.
AsyncCond(its, tot, last) ==
    async_class /\ ~last /\ (tot # None /\ Len(its) < tot)

\* Lines 634-662: the first request and what is derived from its response.
FirstPage ==
    /\ pc = "start"
    /\ LET q == FirstParams(params, startAt, maxResults)
           resource == Respond(server, q)
           got == GetItemsFromPage(items_key, resource)
           meta == FirstMeta(resource)
           size == Or(meta.max_results, Len(got.items))
       IN  /\ page_params' = q
           /\ requests' = Append(requests, q)
           /\ urls' = Append(urls, GetUrl(request_path, base))
           /\ responses' = Append(responses, resource)
           /\ IF PageError(items_key, resource).err # "none"
              THEN /\ Raise(PageError(items_key, resource).err,
                            PageError(items_key, resource).msg)
                   /\ UNCHANGED <<items, next_items_page, total, is_last,
                                  start_at_from_response, max_results_from_response,
                                  page_size, page_start, item_offsets>>
              ELSE /\ items' = got.items
                   /\ next_items_page' = got.items
                   /\ item_offsets' = Repeat(Len(got.items), OffsetOf(q))
                   /\ total' = meta.total
                   /\ is_last' = meta.is_last
                   /\ start_at_from_response' = meta.start_at
                   /\ max_results_from_response' = meta.max_results
                   /\ IF ~Truthy(maxResults)
                      THEN /\ page_size' = size
                           /\ page_start' = Or(startAt, Or(meta.start_at, 0)) + size
                           /\ pc' = IF AsyncCond(got.items, meta.total, meta.is_last)
                                    THEN "async" ELSE "while"
                      ELSE /\ UNCHANGED <<page_size, page_start>>
                           /\ pc' = "return"
                   /\ UNCHANGED <<result, error, error_body>>
    /\ UNCHANGED <<worker_vars, auth_vars, args, futures>>

\* The number of worker threads of the FuturesSession (options["async_workers"]).
async_workers == 5

\* Lines 672: the next element of range(page_start, total, page_size).
StartIndex == page_start + Len(async_fetches) * page_size

\* Line 672: the range has no further element.
RangeExhausted == page_size # 0 /\ ~(StartIndex < total)

\* AsyncIssue building each request from an empty dict, not a copy of params.
AsyncIssue_noParams ==
    /\ pc = "async"
    /\ page_size = 0 \/ StartIndex < total
    /\ IF page_size = 0
       THEN /\ Raise("ValueError", << >>)
            /\ UNCHANGED <<page_params, async_fetches, requests, urls>>
       ELSE IF params.none
       THEN /\ Raise("AttributeError", << >>)
            /\ UNCHANGED <<page_params, async_fetches, requests, urls>>
       ELSE LET q == [EmptyDict EXCEPT !.startAt = StartIndex, !.maxResults = page_size]
            IN  /\ page_params' = q
                /\ async_fetches' = Append(async_fetches, [params |-> q, done |-> FALSE])
                /\ requests' = Append(requests, q)
                /\ urls' = Append(urls, GetUrl(request_path, JIRA_BASE_URL))
                /\ UNCHANGED <<pc, result, error, error_body>>
    /\ UNCHANGED <<worker_vars, auth_vars, args, items, next_items_page, total, is_last,
                   start_at_from_response, max_results_from_response, page_size,
                   page_start, collected, completed, responses, item_offsets>>

\* Lines 672-678: one turn of the loop that issues the remaining pages.  A
\* page_size of 0 is a step of 0, which range() refuses with ValueError.  The
\* dict of the request is a copy of params; params being None, the copy
\* raises.  The URL is _get_url(request_path), with the default base.
AsyncIssue ==
    /\ pc = "async"
    /\ page_size = 0 \/ StartIndex < total
    /\ IF page_size = 0
       THEN /\ Raise("ValueError", << >>)
            /\ UNCHANGED <<page_params, async_fetches, requests, urls>>
       ELSE IF params.none
       THEN /\ Raise("AttributeError", << >>)
            /\ UNCHANGED <<page_params, async_fetches, requests, urls>>
       ELSE LET q == [params EXCEPT !.startAt = StartIndex, !.maxResults = page_size]
            IN  /\ page_params' = q
                /\ async_fetches' = Append(async_fetches, [params |-> q, done |-> FALSE])
                /\ requests' = Append(requests, q)
                /\ urls' = Append(urls, GetUrl(request_path, JIRA_BASE_URL))
                /\ UNCHANGED <<pc, result, error, error_body>>
    /\ UNCHANGED <<worker_vars, auth_vars, args, items, next_items_page, total, is_last, start_at_from_response,
                   max_results_from_response, page_size, page_start, collected,
                   completed, responses, item_offsets>>

\* A worker thread of the FuturesSession finishes the request of future i.  A
\* pool of async_workers threads takes the futures in the order of submission.
WorkerComplete(i) ==
    /\ pc = "async"
    /\ i \in 1..Len(async_fetches)
    /\ ~async_fetches[i].done
    /\ i <= Len(completed) + async_workers
    /\ async_fetches' = [async_fetches EXCEPT ![i].done = TRUE]
    /\ completed' = Append(completed, i)
    /\ UNCHANGED <<worker_vars, auth_vars, args, locals, collected, history, pc, result, error, error_body>>

\* Lines 679-686 for the future at position k of async_fetches: future.result()
\* returns once a worker has finished it; a truthy body is folded in.
Collect(k) ==
    /\ async_fetches[k].done
    /\ LET resource == Respond(server, async_fetches[k].params)
           got == GetItemsFromPage(items_key, resource)
       IN  /\ responses' = Append(responses, resource)
           /\ collected' = collected + 1
           /\ IF resource.kind # "fail" /\ ~TruthyBody(resource)
              THEN UNCHANGED <<items, next_items_page, item_offsets, pc, result, error, error_body>>
              ELSE IF PageError(items_key, resource).err # "none"
              THEN /\ Raise(PageError(items_key, resource).err,
                            PageError(items_key, resource).msg)
                   /\ UNCHANGED <<items, next_items_page, item_offsets>>
              ELSE /\ items' = items \o got.items
                   /\ next_items_page' = got.items
                   /\ item_offsets' = item_offsets
                         \o Repeat(Len(got.items), OffsetOf(async_fetches[k].params))
                   /\ UNCHANGED <<pc, result, error, error_body>>

\* AsyncCollect walking the futures in the order the workers finished them
\* (as a loop over as_completed would).
AsyncCollect_completionOrder ==
    /\ pc = "async"
    /\ RangeExhausted
    /\ collected < Len(completed)
    /\ Collect(completed[collected + 1])
    /\ UNCHANGED <<worker_vars, auth_vars, args, page_params, total, is_last, start_at_from_response,
                   max_results_from_response, page_size, page_start, async_fetches,
                   completed, requests, urls>>

\* Lines 679-686: one turn of the loop over async_fetches, which walks the
\* futures in the order they were issued.
AsyncCollect ==
    /\ pc = "async"
    /\ RangeExhausted
    /\ collected < Len(async_fetches)
    /\ Collect(collected + 1)
    /\ UNCHANGED <<worker_vars, auth_vars, args, page_params, total, is_last, start_at_from_response,
                   max_results_from_response, page_size, page_start, async_fetches,
                   completed, requests, urls>>

\* The loop over async_fetches is exhausted; control reaches the while at 687.
AsyncDone ==
    /\ pc = "async"
    /\ RangeExhausted
    /\ collected = Len(async_fetches)
    /\ pc' = "while"
    /\ UNCHANGED <<worker_vars, auth_vars, args, locals, futures, history, result, error, error_body>>

\* WhileCond without the test of line 691 on the size of the last page.
WhileCond_noShortCheck ==
    /\ ~async_class
    /\ ~is_last
    /\ (total = None \/ page_start < total)

\* WhileCond with line 690 comparing page_start <= total.
WhileCond_atTotal ==
    /\ ~async_class
    /\ ~is_last
    /\ (total = None \/ page_start <= total)
    /\ Len(next_items_page) = page_size

\* Lines 687-692: the condition of the sequential loop.
WhileCond ==
    /\ ~async_class
    /\ ~is_last
    /\ (total = None \/ page_start < total)
    /\ Len(next_items_page) = page_size

\* SeqStep with page_params being params itself where line 634 copies it:
\* the pagination keys are written to the caller's dict.
SeqStep_noCopy ==
    /\ pc = "while"
    /\ WhileCond
    /\ Len(requests) < MaxRequests
    /\ LET q == [page_params EXCEPT !.startAt = page_start, !.maxResults = page_size]
           resource == Respond(server, q)
           got == GetItemsFromPage(items_key, resource)
       IN  /\ page_params' = q
           /\ params' = IF TruthyDict(params) THEN q ELSE params
           /\ requests' = Append(requests, q)
           /\ urls' = Append(urls, GetUrl(request_path, base))
           /\ responses' = Append(responses, resource)
           /\ IF resource.kind # "fail" /\ ~TruthyBody(resource)
              THEN /\ pc' = "return"
                   /\ UNCHANGED <<items, next_items_page, page_start, item_offsets,
                                  result, error, error_body>>
              ELSE IF PageError(items_key, resource).err # "none"
              THEN /\ Raise(PageError(items_key, resource).err,
                            PageError(items_key, resource).msg)
                   /\ UNCHANGED <<items, next_items_page, page_start, item_offsets>>
              ELSE /\ items' = items \o got.items
                   /\ next_items_page' = got.items
                   /\ page_start' = page_start + page_size
                   /\ item_offsets' = item_offsets \o Repeat(Len(got.items), OffsetOf(q))
                   /\ UNCHANGED <<pc, result, error, error_body>>
    /\ UNCHANGED <<worker_vars, auth_vars, async_class, items_key, startAt, maxResults, server, base,
                   total, is_last, start_at_from_response, max_results_from_response,
                   page_size, futures>>

\* Lines 693-706: one turn of the sequential loop.
SeqStep ==
    /\ pc = "while"
    /\ WhileCond
    /\ Len(requests) < MaxRequests
    /\ LET q == [page_params EXCEPT !.startAt = page_start, !.maxResults = page_size]
           resource == Respond(server, q)
           got == GetItemsFromPage(items_key, resource)
       IN  /\ page_params' = q
           /\ requests' = Append(requests, q)
           /\ urls' = Append(urls, GetUrl(request_path, base))
           /\ responses' = Append(responses, resource)
           /\ IF resource.kind # "fail" /\ ~TruthyBody(resource)
              THEN /\ pc' = "return"
                   /\ UNCHANGED <<items, next_items_page, page_start, item_offsets,
                                  result, error, error_body>>
              ELSE IF PageError(items_key, resource).err # "none"
              THEN /\ Raise(PageError(items_key, resource).err,
                            PageError(items_key, resource).msg)
                   /\ UNCHANGED <<items, next_items_page, page_start, item_offsets>>
              ELSE /\ items' = items \o got.items
                   /\ next_items_page' = got.items
                   /\ page_start' = page_start + page_size
                   /\ item_offsets' = item_offsets \o Repeat(Len(got.items), OffsetOf(q))
                   /\ UNCHANGED <<pc, result, error, error_body>>
    /\ UNCHANGED <<worker_vars, auth_vars, args, total, is_last, start_at_from_response,
                   max_results_from_response, page_size, futures>>

\* Return with the pagination fields of the page read last.
Return_lastPage ==
    /\ pc = "return" \/ (pc = "while" /\ ~WhileCond)
    /\ LET l == responses[Len(responses)]
       IN  result' = ResultList(items,
                                IF l.startAt = None THEN 0 ELSE l.startAt,
                                IF l.maxResults = None THEN 1 ELSE l.maxResults,
                                l.total, l.isLast = "true")
    /\ pc' = "done"
    /\ UNCHANGED <<worker_vars, auth_vars, args, locals, futures, history, error, error_body>>

\* Lines 708-710: the ResultList handed to the caller.
Return ==
    /\ pc = "return" \/ (pc = "while" /\ ~WhileCond)
    /\ result' = ResultList(items, start_at_from_response, max_results_from_response,
                            total, is_last)
    /\ pc' = "done"
    /\ UNCHANGED <<worker_vars, auth_vars, args, locals, futures, history, error, error_body>>

Next ==
    \/ FirstPage
    \/ AsyncIssue
    \/ \E i \in 1..Len(async_fetches) : WorkerComplete(i)
    \/ AsyncCollect
    \/ AsyncDone
    \/ SeqStep
    \/ Return

vars == <<pager_vars, auth_vars, worker_vars>>

Spec == Init /\ [][Next]_vars

\* ------------------------------------------------- cookie authentication
\* The number of logins one request of the caller is followed through.
MaxLogins == 2

\* The number of distinct values of the session cookie.
MaxJar == 2

\* A cookie jar: the value of each cookie by name, 0 for a cookie that is not
\* in the jar.  JSESSIONID is the session cookie, xsrf stands for any other
\* cookie the server has set.  The same shape tells the cookies a login
\* response sets (0: not set by it).
EmptyJar == [JSESSIONID |-> 0, xsrf |-> 0]
Jars == [JSESSIONID : 0..MaxJar, xsrf : {0, 1}]

\* Merge with the jar emptied before the cookies of the login are put in.
Merge_replace(jar, set_cookies) == set_cookies

\* The jar after a response that sets set_cookies has gone through the
\* session: a cookie it sets replaces the one of that name, the others stay.
\* Neither JiraCookieAuth nor JIRA.session clears the jar.
Merge(jar, set_cookies) ==
    [JSESSIONID |-> IF set_cookies.JSESSIONID # 0 THEN set_cookies.JSESSIONID
                    ELSE jar.JSESSIONID,
     xsrf |-> IF set_cookies.xsrf # 0 THEN set_cookies.xsrf ELSE jar.xsrf]

Methods == {"GET", "POST"}
Urls == {"/rest/api/2/search", "/rest/agile/1.0/board"}
Bodies == {"", "{...}"}
Statuses == {200, 401, 500}

\* What a client may bind _get_session to: the JIRA.session method, as
\* _create_cookie_auth does, or a login function that takes the credentials.
GetSessionTargets == {"JIRA.session", "callable"}

\* The credentials kept in JiraCookieAuth.__auth.
auth == "credentials"

\* How a call _get_session(self.__auth) can end.  JIRA.session is declared
\* with no parameter besides self: the call with one argument raises
\* TypeError before any request is made.  A login function either installs
\* cookies and returns, or raises.
LoginOutcomes(target) ==
    IF target = "JIRA.session" THEN {"TypeError"} ELSE {"ok", "LoginError"}

\* A request without Cookie header: the header is told by the cookies it
\* carries, and it carries none.
NoCookieHeader == EmptyJar

\* PreparedRequest.prepare_cookies, as the comment of update_cookies tells it:
\* a Cookie header that is present is kept; otherwise the header is made
\* from the jar, and an empty jar makes none.
PrepareCookies(header, jar) ==
    IF header # NoCookieHeader THEN header ELSE jar

\* UpdateCookies without the deletion of the Cookie header.
UpdateCookies_keepHeader(original_request, jar) ==
    [original_request EXCEPT !.Cookie = PrepareCookies(original_request.Cookie, jar)]

\* update_cookies: the Cookie header is deleted, then made again from the jar.
UpdateCookies(original_request, jar) ==
    [original_request EXCEPT !.Cookie = PrepareCookies(NoCookieHeader, jar)]

\* Unauthorized taking every error status for a 401.
Unauthorized_anyError(status_code) == status_code >= 400

\* The test of handle_401 (line 205).
Unauthorized(status_code) == status_code = 401

\* The innermost frame of Session.send.
Top == stack[Len(stack)]

SetTop(f) == [stack EXCEPT ![Len(stack)] = f]

\* A session as the client is constructed, and no request of _fetch_pages
\* under way.
PagerIdle ==
    /\ async_class = FALSE
    /\ items_key = "values"
    /\ startAt = 0
    /\ maxResults = 0
    /\ params = NoParams
    /\ base = JIRA_BASE_URL
    /\ server = [shape |-> "dict", count |-> 0, pageSize |-> 1, sendsTotal |-> FALSE,
                 sendsMaxResults |-> FALSE, sendsIsLast |-> FALSE, emptyAt |-> None,
                 keylessAt |-> None, failAt |-> None, reportsZero |-> FALSE]
    /\ pc = "start"
    /\ page_params = EmptyDict
    /\ items = << >>
    /\ next_items_page = << >>
    /\ total = None
    /\ is_last = FALSE
    /\ start_at_from_response = 0
    /\ max_results_from_response = 0
    /\ page_size = 0
    /\ page_start = 0
    /\ async_fetches = << >>
    /\ collected = 0
    /\ completed = << >>
    /\ requests = << >>
    /\ urls = << >>
    /\ responses = << >>
    /\ item_offsets = << >>
    /\ result = NoResult
    /\ error = "none"
    /\ error_body = << >>

AuthInit ==
    /\ PagerIdle
    /\ WorkersIdle
    /\ get_session \in GetSessionTargets
    /\ cookies \in Jars
    /\ stack = << >>
    /\ sent = << >>
    /\ answers = << >>
    /\ logins = << >>
    /\ auth_pc = "idle"
    /\ received = None
    /\ auth_error = "none"

\* The caller sends a request through the session: preparing it applies the
\* session's auth (__call__ registers handle_401 as response hook) and takes
\* the cookies of the jar; Session.send then waits for the answer.
Send(method, url, body) ==
    /\ auth_pc = "idle"
    /\ LET request == [method |-> method, url |-> url, body |-> body,
                       Cookie |-> PrepareCookies(NoCookieHeader, cookies),
                       hooks |-> {"handle_401"}, replay_of |-> None]
       IN  /\ sent' = Append(sent, request)
           /\ stack' = << [idx |-> Len(sent) + 1, phase |-> "sent", returns |-> None] >>
    /\ auth_pc' = "calling"
    /\ UNCHANGED <<worker_vars, pager_vars, get_session, cookies, answers, logins, received, auth_error>>

\* The server answers the request of the innermost frame; Session.send then
\* dispatches the response hooks of the request.
Answer(status_code) ==
    /\ auth_pc = "calling"
    /\ Top.phase = "sent"
    /\ answers' = Append(answers, status_code)
    /\ stack' = SetTop(IF "handle_401" \in sent[Top.idx].hooks
                       THEN [Top EXCEPT !.phase = "hook"]
                       ELSE [Top EXCEPT !.phase = "returned", !.returns = Top.idx])
    /\ UNCHANGED <<worker_vars, pager_vars, get_session, cookies, sent, logins, auth_pc, received,
                   auth_error>>

\* handle_401, lines 205-206: a response that is no 401 is returned as it is.
HookPass ==
    /\ auth_pc = "calling"
    /\ Top.phase = "hook"
    /\ ~Unauthorized(answers[Top.idx])
    /\ stack' = SetTop([Top EXCEPT !.phase = "returned", !.returns = Top.idx])
    /\ UNCHANGED <<worker_vars, pager_vars, get_session, cookies, sent, answers, logins, auth_pc,
                   received, auth_error>>

\* LoginStart that also logs in again while a replay is still unanswered.
LoginStart_unanswered ==
    /\ auth_pc = "calling"
    /\ \/ Top.phase = "hook" /\ Unauthorized(answers[Top.idx])
       \/ Top.phase = "sent" /\ sent[Top.idx].replay_of # None
    /\ Len(logins) < MaxLogins
    /\ logins' = Append(logins, [arg |-> auth, state |-> "running", of |-> Top.idx,
                                 posted |-> FALSE, before |-> None,
                                 set_cookies |-> None, jar |-> None])
    /\ stack' = SetTop([Top EXCEPT !.phase = "login"])
    /\ UNCHANGED <<worker_vars, pager_vars, get_session, cookies, sent, answers, auth_pc, received,
                   auth_error>>

\* handle_401, line 207: init_session -> start_session -> _get_session(__auth).
LoginStart ==
    /\ auth_pc = "calling"
    /\ Top.phase = "hook"
    /\ Unauthorized(answers[Top.idx])
    /\ Len(logins) < MaxLogins
    /\ logins' = Append(logins, [arg |-> auth, state |-> "running", of |-> Top.idx,
                                 posted |-> FALSE, before |-> None,
                                 set_cookies |-> None, jar |-> None])
    /\ stack' = SetTop([Top EXCEPT !.phase = "login"])
    /\ UNCHANGED <<worker_vars, pager_vars, get_session, cookies, sent, answers, auth_pc, received,
                   auth_error>>

\* LoginEnd with an exception of the login taken for a return.
LoginEnd_swallowed(outcome, set_cookies) ==
    /\ auth_pc = "calling"
    /\ Top.phase = "login"
    /\ outcome \in LoginOutcomes(get_session)
    /\ IF outcome = "ok"
       THEN /\ logins' = [logins EXCEPT ![Len(logins)].state = "returned",
                                        ![Len(logins)].posted = TRUE,
                                        ![Len(logins)].before = cookies,
                                        ![Len(logins)].set_cookies = set_cookies,
                                        ![Len(logins)].jar = Merge(cookies, set_cookies)]
            /\ cookies' = Merge(cookies, set_cookies)
       ELSE /\ logins' = [logins EXCEPT ![Len(logins)].state = "raised"]
            /\ cookies' = cookies
    /\ stack' = SetTop([Top EXCEPT !.phase = "relogged"])
    /\ UNCHANGED <<auth_pc, auth_error>>
    /\ UNCHANGED <<worker_vars, pager_vars, get_session, sent, answers, received>>

\* The call of _get_session ends.  When it returns, the cookies its response
\* set (set_cookies) are in the jar and handle_401 goes on; when it raises, nothing catches
\* the exception in handle_401, in the dispatch of the hooks or in
\* Session.send, and it reaches the caller.
LoginEnd(outcome, set_cookies) ==
    /\ auth_pc = "calling"
    /\ Top.phase = "login"
    /\ outcome \in LoginOutcomes(get_session)
    /\ IF outcome = "ok"
       THEN /\ logins' = [logins EXCEPT ![Len(logins)].state = "returned",
                                        ![Len(logins)].posted = TRUE,
                                        ![Len(logins)].before = cookies,
                                        ![Len(logins)].set_cookies = set_cookies,
                                        ![Len(logins)].jar = Merge(cookies, set_cookies)]
            /\ cookies' = Merge(cookies, set_cookies)
            /\ stack' = SetTop([Top EXCEPT !.phase = "relogged"])
            /\ UNCHANGED <<auth_pc, auth_error>>
       ELSE /\ logins' = [logins EXCEPT ![Len(logins)].state = "raised"]
            /\ stack' = << >>
            /\ auth_pc' = "raised"
            /\ auth_error' = outcome
            /\ UNCHANGED cookies
    /\ UNCHANGED <<worker_vars, pager_vars, get_session, sent, answers, received>>

\* Replay not waiting for the login to end.
Replay_early ==
    /\ auth_pc = "calling"
    /\ Top.phase \in {"login", "relogged"}
    /\ LET original_request == sent[Top.idx]
           request == [UpdateCookies(original_request, cookies)
                           EXCEPT !.replay_of = Top.idx]
       IN  /\ sent' = Append(sent, request)
           /\ stack' = Append(SetTop([Top EXCEPT !.phase = "wait"]),
                              [idx |-> Len(sent) + 1, phase |-> "sent", returns |-> None])
    /\ UNCHANGED <<worker_vars, pager_vars, get_session, cookies, answers, logins, auth_pc, received,
                   auth_error>>

\* Replay with a request copy that lost its response hooks.
Replay_noHooks ==
    /\ auth_pc = "calling"
    /\ Top.phase = "relogged"
    /\ LET original_request == sent[Top.idx]
           request == [UpdateCookies(original_request, cookies)
                           EXCEPT !.replay_of = Top.idx, !.hooks = {}]
       IN  /\ sent' = Append(sent, request)
           /\ stack' = Append(SetTop([Top EXCEPT !.phase = "wait"]),
                              [idx |-> Len(sent) + 1, phase |-> "sent", returns |-> None])
    /\ UNCHANGED <<worker_vars, pager_vars, get_session, cookies, answers, logins, auth_pc, received,
                   auth_error>>

\* handle_401, line 208: process_original_request(response.request.copy()).
\* The copy keeps method, URL, body and hooks; update_cookies renews its
\* Cookie header and send_request sends it through self._session.
Replay ==
    /\ auth_pc = "calling"
    /\ Top.phase = "relogged"
    /\ LET original_request == sent[Top.idx]
           request == [UpdateCookies(original_request, cookies)
                           EXCEPT !.replay_of = Top.idx]
       IN  /\ sent' = Append(sent, request)
           /\ stack' = Append(SetTop([Top EXCEPT !.phase = "wait"]),
                              [idx |-> Len(sent) + 1, phase |-> "sent", returns |-> None])
    /\ UNCHANGED <<worker_vars, pager_vars, get_session, cookies, answers, logins, auth_pc, received,
                   auth_error>>

\* Unwind with handle_401 returning the response it was called with.
Unwind_ownResponse ==
    /\ auth_pc = "calling"
    /\ Top.phase = "returned"
    /\ IF Len(stack) = 1
       THEN /\ received' = Top.returns
            /\ auth_pc' = "done"
            /\ stack' = << >>
       ELSE /\ stack' = [SubSeq(stack, 1, Len(stack) - 1)
                             EXCEPT ![Len(stack) - 1].phase = "returned",
                                    ![Len(stack) - 1].returns = stack[Len(stack) - 1].idx]
            /\ UNCHANGED <<received, auth_pc>>
    /\ UNCHANGED <<worker_vars, pager_vars, get_session, cookies, sent, answers, logins, auth_error>>

\* A frame of Session.send returns.  The outermost one hands its response to
\* the caller; an inner one is the send of a replay, whose response
\* handle_401 returns in place of the 401 (lines 208-209).
Unwind ==
    /\ auth_pc = "calling"
    /\ Top.phase = "returned"
    /\ IF Len(stack) = 1
       THEN /\ received' = Top.returns
            /\ auth_pc' = "done"
            /\ stack' = << >>
       ELSE /\ stack' = [SubSeq(stack, 1, Len(stack) - 1)
                             EXCEPT ![Len(stack) - 1].phase = "returned",
                                    ![Len(stack) - 1].returns = Top.returns]
            /\ UNCHANGED <<received, auth_pc>>
    /\ UNCHANGED <<worker_vars, pager_vars, get_session, cookies, sent, answers, logins, auth_error>>

AuthNext ==
    \/ \E method \in Methods, url \in Urls, body \in Bodies : Send(method, url, body)
    \/ \E status_code \in Statuses : Answer(status_code)
    \/ HookPass
    \/ LoginStart
    \/ \E outcome \in {"ok", "LoginError", "TypeError"}, set_cookies \in Jars :
          LoginEnd(outcome, set_cookies)
    \/ Replay
    \/ Unwind

AuthSpec == AuthInit /\ [][AuthNext]_vars

\* ------------------------- two workers on one cookie-auth session
\* _fetch_pages hands the follow-up requests to async_class(session=
\* self._session, max_workers=async_workers) (lines 669-677): each worker
\* thread runs self._session's request, hooks included, on the one session,
\* its jar and its authenticator.  answers[i] is None while sent[i] is
\* unanswered.
WTop(w) == worker_stack[w][Len(worker_stack[w])]

WSetTop(w, f) == [worker_stack[w] EXCEPT ![Len(worker_stack[w])] = f]

\* The jars that hold a session cookie and nothing else: what a login's
\* response sets, and what the session holds once it has logged in.
SessionCookies == {jar \in Jars : jar.JSESSIONID # 0 /\ jar.xsrf = 0}

WorkersInit ==
    /\ PagerIdle
    /\ get_session \in GetSessionTargets
    /\ cookies \in SessionCookies
    /\ stack = << >>
    /\ sent = << >>
    /\ answers = << >>
    /\ logins = << >>
    /\ auth_pc = "idle"
    /\ received = None
    /\ auth_error = "none"
    /\ WorkersIdle

\* Line 677, on worker w: the GET is prepared with the hook and the cookies
\* of the jar, and sent.
WSend(w) ==
    /\ worker_pc[w] = "idle"
    /\ LET request == [method |-> "GET", url |-> "/rest/agile/1.0/board", body |-> "",
                       Cookie |-> PrepareCookies(NoCookieHeader, cookies),
                       hooks |-> {"handle_401"}, replay_of |-> None]
       IN  /\ sent' = Append(sent, request)
           /\ answers' = Append(answers, None)
           /\ worker_stack' = [worker_stack EXCEPT ![w] =
                   << [idx |-> Len(sent) + 1, phase |-> "sent", returns |-> None] >>]
    /\ worker_pc' = [worker_pc EXCEPT ![w] = "calling"]
    /\ UNCHANGED <<pager_vars, get_session, cookies, stack, logins, auth_pc, received,
                   auth_error>>

\* The server answers the request worker w waits for; Session.send
\* dispatches the hooks on w's thread.
WAnswer(w, status_code) ==
    /\ worker_pc[w] = "calling"
    /\ WTop(w).phase = "sent"
    /\ answers' = [answers EXCEPT ![WTop(w).idx] = status_code]
    /\ worker_stack' = [worker_stack EXCEPT ![w] =
            WSetTop(w, IF "handle_401" \in sent[WTop(w).idx].hooks
                       THEN [WTop(w) EXCEPT !.phase = "hook"]
                       ELSE [WTop(w) EXCEPT !.phase = "returned", !.returns = WTop(w).idx])]
    /\ UNCHANGED <<pager_vars, get_session, cookies, stack, sent, logins, auth_pc,
                   received, auth_error, worker_pc>>

\* handle_401, lines 205-206, on worker w.
WHookPass(w) ==
    /\ worker_pc[w] = "calling"
    /\ WTop(w).phase = "hook"
    /\ ~Unauthorized(answers[WTop(w).idx])
    /\ worker_stack' = [worker_stack EXCEPT ![w] =
            WSetTop(w, [WTop(w) EXCEPT !.phase = "returned", !.returns = WTop(w).idx])]
    /\ UNCHANGED <<pager_vars, auth_vars, worker_pc>>

\* WLoginStart holding a lock of the authenticator from the login to the
\* answer of the replay.
WLoginStart_locked(w) ==
    /\ worker_pc[w] = "calling"
    /\ WTop(w).phase = "hook"
    /\ Unauthorized(answers[WTop(w).idx])
    /\ Len(logins) < MaxLogins
    /\ \A v \in Workers \ {w} :
          \A f \in 1..Len(worker_stack[v]) :
              worker_stack[v][f].phase \notin {"login", "relogged"}
              /\ ~(worker_stack[v][f].phase = "sent"
                   /\ sent[worker_stack[v][f].idx].replay_of # None)
    /\ logins' = Append(logins, [arg |-> auth, state |-> "running", of |-> WTop(w).idx,
                                 posted |-> FALSE, before |-> None,
                                 set_cookies |-> None, jar |-> None, by |-> w])
    /\ worker_stack' = [worker_stack EXCEPT ![w] = WSetTop(w, [WTop(w) EXCEPT !.phase = "login"])]
    /\ UNCHANGED <<pager_vars, get_session, cookies, stack, sent, answers, auth_pc,
                   received, auth_error, worker_pc>>

\* handle_401, line 207, on worker w: nothing is acquired or awaited before
\* _get_session is called.
WLoginStart(w) ==
    /\ worker_pc[w] = "calling"
    /\ WTop(w).phase = "hook"
    /\ Unauthorized(answers[WTop(w).idx])
    /\ Len(logins) < MaxLogins
    /\ logins' = Append(logins, [arg |-> auth, state |-> "running", of |-> WTop(w).idx,
                                 posted |-> FALSE, before |-> None,
                                 set_cookies |-> None, jar |-> None, by |-> w])
    /\ worker_stack' = [worker_stack EXCEPT ![w] = WSetTop(w, [WTop(w) EXCEPT !.phase = "login"])]
    /\ UNCHANGED <<pager_vars, get_session, cookies, stack, sent, answers, auth_pc,
                   received, auth_error, worker_pc>>

\* The login worker w is running: the one made for the request of its
\* innermost frame.
LoginOf(w) == CHOOSE k \in 1..Len(logins) :
                  logins[k].of = WTop(w).idx /\ logins[k].state = "running"

\* The call of _get_session on worker w ends; when it returns, the cookies
\* of its response are stored in the jar the workers share.
WLoginEnd(w, outcome, set_cookies) ==
    /\ worker_pc[w] = "calling"
    /\ WTop(w).phase = "login"
    /\ outcome \in LoginOutcomes(get_session)
    /\ IF outcome = "ok"
       THEN /\ logins' = [logins EXCEPT ![LoginOf(w)].state = "returned",
                                        ![LoginOf(w)].posted = TRUE,
                                        ![LoginOf(w)].before = cookies,
                                        ![LoginOf(w)].set_cookies = set_cookies,
                                        ![LoginOf(w)].jar = Merge(cookies, set_cookies)]
            /\ cookies' = Merge(cookies, set_cookies)
            /\ worker_stack' = [worker_stack EXCEPT ![w] =
                    WSetTop(w, [WTop(w) EXCEPT !.phase = "relogged"])]
            /\ UNCHANGED worker_pc
       ELSE /\ logins' = [logins EXCEPT ![LoginOf(w)].state = "raised"]
            /\ worker_stack' = [worker_stack EXCEPT ![w] = << >>]
            /\ worker_pc' = [worker_pc EXCEPT ![w] = "raised"]
            /\ UNCHANGED cookies
    /\ UNCHANGED <<pager_vars, get_session, stack, sent, answers, auth_pc, received,
                   auth_error>>

\* handle_401, line 208, on worker w: the copy of the request takes the
\* cookies the jar holds at that moment.
WReplay(w) ==
    /\ worker_pc[w] = "calling"
    /\ WTop(w).phase = "relogged"
    /\ LET original_request == sent[WTop(w).idx]
           request == [UpdateCookies(original_request, cookies)
                           EXCEPT !.replay_of = WTop(w).idx]
       IN  /\ sent' = Append(sent, request)
           /\ answers' = Append(answers, None)
           /\ worker_stack' = [worker_stack EXCEPT ![w] =
                   Append(WSetTop(w, [WTop(w) EXCEPT !.phase = "wait"]),
                          [idx |-> Len(sent) + 1, phase |-> "sent", returns |-> None])]
    /\ UNCHANGED <<pager_vars, get_session, cookies, stack, logins, auth_pc, received,
                   auth_error, worker_pc>>

\* A frame of worker w returns: to the activation of handle_401 below it,
\* which returns the same response (line 209), or to the worker's future.
WUnwind(w) ==
    /\ worker_pc[w] = "calling"
    /\ WTop(w).phase = "returned"
    /\ IF Len(worker_stack[w]) = 1
       THEN /\ worker_pc' = [worker_pc EXCEPT ![w] = "done"]
            /\ UNCHANGED worker_stack
       ELSE /\ worker_stack' = [worker_stack EXCEPT ![w] =
                    [SubSeq(worker_stack[w], 1, Len(worker_stack[w]) - 1)
                         EXCEPT ![Len(worker_stack[w]) - 1].phase = "returned",
                                ![Len(worker_stack[w]) - 1].returns = WTop(w).returns]]
            /\ UNCHANGED worker_pc
    /\ UNCHANGED <<pager_vars, auth_vars>>

WorkersNext ==
    \E w \in Workers :
        \/ WSend(w)
        \/ \E status_code \in Statuses : WAnswer(w, status_code)
        \/ WHookPass(w)
        \/ WLoginStart(w)
        \/ \E outcome \in {"ok", "LoginError", "TypeError"}, set_cookies \in SessionCookies :
              WLoginEnd(w, outcome, set_cookies)
        \/ WReplay(w)
        \/ WUnwind(w)

WorkersSpec == WorkersInit /\ [][WorkersNext]_vars

\* ------------------------------------------------- vocabulary of the claims
FetchAll == ~Truthy(maxResults)

\* The configured items key fits the shape of the endpoint's responses.
KeyedEndpoint == items_key = "values" /\ server.shape = "dict"

\* The records carried by the bodies rs, in order.
RECURSIVE Carried(_)
Carried(rs) == IF rs = << >> THEN << >> ELSE rs[1].items \o Carried(Tail(rs))

\* Lines 687-706 run to the end from the given loop state, with the first
\* page's total, is_last and page_size: what the same call yields with
\* concurrency disabled.  A turn that leaves the loop's state as it was (a
\* page size of 0) is the start of an endless loop.
RECURSIVE SeqLoop(_, _, _)
SeqLoop(its, nip, ps) ==
    IF ~(~is_last /\ (total = None \/ ps < total) /\ Len(nip) = page_size)
    THEN [err |-> "none", items |-> its]
    ELSE LET q == [requests[1] EXCEPT !.startAt = ps, !.maxResults = page_size]
             resource == Respond(server, q)
             got == GetItemsFromPage(items_key, resource)
         IN  IF resource.kind # "fail" /\ ~TruthyBody(resource) THEN [err |-> "none", items |-> its]
             ELSE IF PageError(items_key, resource).err # "none"
             THEN [err |-> PageError(items_key, resource).err, items |-> << >>]
             ELSE IF page_size = 0 /\ got.items = << >>
             THEN [err |-> "endless", items |-> << >>]
             ELSE SeqLoop(its \o got.items, got.items, ps + page_size)

\* The outcome of the sequential loop after the first page of this call.
SequentialOutcome ==
    LET first == GetItemsFromPage(items_key, responses[1]).items
    IN  SeqLoop(first, first, Or(startAt, Or(start_at_from_response, 0)) + page_size)

\* ------------------------------------------------------------------ C1
\* C1: with a truthy maxResults N the call issues exactly one GET, for the
\* window starting at startAt (an absent startAt parameter is offset 0) with
\* maxResults = N, and returns exactly the items of that one response.
C1_SinglePage ==
    Truthy(maxResults) =>
        /\ Len(requests) <= 1
        /\ pc # "start" =>
              /\ Len(requests) = 1
              /\ requests[1].maxResults = maxResults
              /\ OffsetOf(requests[1]) = startAt
        /\ pc = "done" =>
              /\ Len(responses) = 1
              /\ KeyedEndpoint => result.items = responses[1].items
              /\ (items_key = "None" /\ server.shape = "list") =>
                    result.items = responses[1].items

\* A single page was returned although the server holds more records after it.
C1_Witness ==
    /\ pc = "done"
    /\ maxResults = 1
    /\ startAt = 1
    /\ KeyedEndpoint
    /\ server.count > startAt + maxResults
    /\ responses[1].isLast = "false"
    /\ result.items = << 1 >>

\* ------------------------------------------------------------------ C2
\* C2: in fetch-all mode no request is issued once a page response carrying
\* isLast = true has been read.
C2_NoRequestAfterIsLast ==
    (FetchAll /\ KeyedEndpoint) =>
        \A i \in 1..Len(responses) :
            responses[i].isLast = "true" => Len(requests) <= i

\* ------------------------------------------------------------------ C3
\* C3 (amended): after a fetch-all call that fetched more than one page, the
\* startAt, maxResults, total and isLast of the result are those of the first
\* page (with the defaults 0, 1, None, False for absent fields).
C3_MetaOfFirstPage ==
    (pc = "done" /\ FetchAll /\ Len(responses) > 1) =>
        LET f == responses[1]
        IN  /\ result.startAt = (IF f.startAt = None THEN 0 ELSE f.startAt)
            /\ result.maxResults = (IF f.maxResults = None THEN 1 ELSE f.maxResults)
            /\ result.total = f.total
            /\ result.isLast = (f.isLast = "true")

\* C3 as stated: the fields of the result are those of the last page fetched.
C3_MetaOfLastPage ==
    (pc = "done" /\ FetchAll /\ KeyedEndpoint /\ Len(responses) > 1
        /\ responses[Len(responses)] # EmptyBody) =>
        LET l == responses[Len(responses)]
        IN  /\ result.startAt = (IF l.startAt = None THEN 0 ELSE l.startAt)
            /\ result.maxResults = (IF l.maxResults = None THEN 1 ELSE l.maxResults)
            /\ result.total = l.total
            /\ result.isLast = (l.isLast = "true")

\* Two pages were fetched and the last one reports another startAt and isLast.
C3_Witness ==
    /\ pc = "done"
    /\ FetchAll
    /\ Len(responses) = 2
    /\ responses[2].startAt > responses[1].startAt
    /\ responses[2].isLast = "true"
    /\ responses[1].isLast = "false"
    /\ result.startAt = responses[1].startAt

\* ------------------------------------------------------------------ C4
\* C4: with the concurrent facility enabled and a first response without
\* total (and not last), the call returns what the sequential loop returns.
C4_FallsBackToSequential ==
    (pc = "done" /\ FetchAll /\ async_class /\ KeyedEndpoint
        /\ responses[1].total = None /\ responses[1].isLast # "true") =>
        /\ SequentialOutcome.err = "none"
        /\ result.items = SequentialOutcome.items

\* ------------------------------------------------------------------ C5
\* C5: in fetch-all mode against an endpoint that sends neither isLast nor
\* total, no request follows a page with fewer items than the page size, the
\* result holds the items of every page received, and the sequential loop
\* does not stop after a page of exactly the page size.
C5_ShortPageStops ==
    (FetchAll /\ KeyedEndpoint /\ ~server.sendsTotal /\ ~server.sendsIsLast
        /\ pc \notin {"start", "raised"}) =>
        /\ \A i \in 1..Len(responses) :
              Len(responses[i].items) < page_size => Len(requests) <= i
        /\ pc = "done" =>
              /\ Len(responses) = Len(requests)
              /\ result.items = Carried(responses)
              /\ ~async_class => Len(responses[Len(responses)].items) # page_size

\* Pages of 2, 2 and 1 items: three requests, five items.
C5_Witness ==
    /\ pc = "done"
    /\ FetchAll
    /\ KeyedEndpoint /\ ~server.sendsTotal /\ ~server.sendsIsLast
    /\ page_size = 2
    /\ Len(requests) = 3
    /\ Len(responses[1].items) = 2
    /\ Len(responses[2].items) = 2
    /\ Len(responses[3].items) = 1
    /\ Len(result.items) = 5

C7_NoRequestBeyondTotal ==
    (FetchAll /\ pc # "start" /\ total # None) =>
        \A i \in 2..Len(requests) :
            requests[i].startAt # None /\ requests[i].startAt < total

\* The last page requested is the one that reaches total, after two or more
\* follow-up requests.
C7_Witness ==
    /\ pc = "done"
    /\ FetchAll
    /\ total # None
    /\ Len(requests) >= 3
    /\ requests[Len(requests)].startAt + page_size >= total
    /\ Len(result.items) = total

\* ------------------------------------------------------------------ C8
\* C8: with total known, the concurrent fetch-all ends as the sequential
\* fetch-all over the same data does: same failure, or same item sequence.
C8_ConcurrentEqualsSequential ==
    (FetchAll /\ async_class /\ pc \in {"done", "raised"} /\ Len(responses) >= 1
        /\ KeyedEndpoint /\ responses[1].total # None
        /\ GetItemsFromPage(items_key, responses[1]).err = "none") =>
        /\ pc = "raised" => SequentialOutcome.err = error
        /\ pc = "done" =>
              /\ SequentialOutcome.err = "none"
              /\ result.items = SequentialOutcome.items

\* ------------------------------------------------------------------ C9
\* C9: whatever the order in which the workers finish, the items are in
\* ascending order of the offsets of the requests that produced them.
C9_AscendingOffsets ==
    /\ Len(item_offsets) = Len(items)
    /\ \A i, j \in 1..Len(item_offsets) :
          i < j => item_offsets[i] <= item_offsets[j]
    /\ pc = "done" => result.items = items

\* The workers finished a later page before an earlier one, and the result
\* holds items of both.
C9_Witness ==
    /\ pc = "done"
    /\ async_class
    /\ Len(completed) >= 2
    /\ completed[1] > completed[2]
    /\ Len(result.items) = total
    /\ item_offsets[1] < item_offsets[Len(item_offsets)]

\* ----------------------------------------------------------------- C10
\* C10 (amended): when the response is a bare array and items_key is None,
\* the call returns one item per element of the array, with startAt = 0,
\* maxResults = 1, total = 1 and isLast = true, after that single request,
\* whatever startAt and maxResults were asked; with an items key configured
\* the call raises TypeError instead of returning.
C10_BareArray ==
    (pc # "start" /\ responses[1].kind = "list") =>
        /\ Len(requests) = 1
        /\ items_key # "None" => pc = "raised" /\ error = "TypeError"
        /\ items_key = "None" =>
              /\ pc \in {"return", "while", "done"}
              /\ pc = "done" =>
                    /\ result.items = responses[1].items
                    /\ result.startAt = 0
                    /\ result.maxResults = 1
                    /\ result.total = 1
                    /\ result.isLast = TRUE

\* C10 as stated: a bare array gives a result of a single item with those
\* fields, whatever the items key.
C10_BareArraySingleItem ==
    (pc # "start" /\ responses[1].kind = "list") =>
        /\ Len(requests) = 1
        /\ pc # "raised"
        /\ pc = "done" =>
              /\ Len(result.items) = 1
              /\ result.startAt = 0
              /\ result.maxResults = 1
              /\ result.total = 1
              /\ result.isLast = TRUE

\* A fetch-all call from offset 1 that got an array of two records.
C10_Witness ==
    /\ pc = "done"
    /\ responses[1].kind = "list"
    /\ items_key = "None"
    /\ FetchAll
    /\ startAt = 1
    /\ result.items = << 1, 2 >>
    /\ result.total = 1

\* ------------------------------------------------------------------ C11
\* The i-th body the calling thread read is a JSON object without the items key.
LacksItemsKey(i) ==
    /\ responses[i].kind = "dict"
    /\ ~responses[i].hasItems

\* The call has failed with the KeyError that quotes body b, without a result.
FailedOnBody(b) ==
    /\ pc = "raised"
    /\ error = "KeyError"
    /\ error_body = << b >>
    /\ result = NoResult

\* C11: whenever a page body read by a call with an items key (the first one,
\* a sequential follow-up or a concurrent one) is a non-empty object without
\* that key, the call fails with the KeyError that carries that body and
\* returns no result.
C11_MissingKeyRaises ==
    KeyedEndpoint =>
        \A i \in 1..Len(responses) :
            (LacksItemsKey(i) /\ responses[i] # EmptyBody) => FailedOnBody(responses[i])

\* C11 as stated: the same of every object without the key, the empty object
\* included.
C11_MissingKeyAnyObject ==
    KeyedEndpoint =>
        \A i \in 1..Len(responses) :
            LacksItemsKey(i) => FailedOnBody(responses[i])

\* A concurrent fetch-all call whose second page came without the key, after
\* the two items of the first page were collected.
C11_Witness ==
    /\ pc = "raised"
    /\ FetchAll /\ async_class /\ KeyedEndpoint
    /\ Len(responses) = 2
    /\ LacksItemsKey(2)
    /\ responses[2].startAt = 2
    /\ Len(items) = 2
    /\ error = "KeyError"
    /\ error_body = << responses[2] >>

\* ------------------------------------------------------------------ C12
\* C12: a call one of whose page fetches failed at transport level, in the
\* first request, the sequential loop or a concurrent future, ends in that
\* failure and returns no result, whatever it had collected before.
C12_NoPartialResult ==
    \A i \in 1..Len(responses) :
        responses[i] = TransportFailure =>
            /\ pc = "raised"
            /\ error = "TransportError"
            /\ result = NoResult
            /\ i = Len(responses)

\* A sequential fetch-all call whose second request failed after the first
\* page had given two items.
C12_Witness ==
    /\ pc = "raised"
    /\ FetchAll /\ ~async_class
    /\ Len(responses) = 2
    /\ responses[2] = TransportFailure
    /\ Len(items) = 2
    /\ error = "TransportError"
    /\ result = NoResult

\* The same in the concurrent path: the future of the second page failed.
C12_WitnessConcurrent ==
    /\ pc = "raised"
    /\ FetchAll /\ async_class
    /\ Len(async_fetches) >= 1
    /\ responses[Len(responses)] = TransportFailure
    /\ Len(items) = 2
    /\ error = "TransportError"

\* ------------------------------------------------------------------ C13
\* The hook is about to run on a response of the innermost frame.
HookRuns ==
    /\ auth_pc = "calling"
    /\ Len(stack) >= 1
    /\ Top.phase = "hook"

\* C13: the step of the hook on a response whose status is not 401 returns
\* that response, makes no login call, sends no request and leaves the
\* cookies of the session as they are.
C13_PassThrough ==
    [][(HookRuns /\ answers[Top.idx] # 401) =>
          /\ Len(stack') = Len(stack)
          /\ stack'[Len(stack)].phase = "returned"
          /\ stack'[Len(stack)].returns = Top.idx
          /\ logins' = logins
          /\ sent' = sent
          /\ cookies' = cookies]_vars

\* The hook has returned a 500 response as it got it; no login, no replay.
C13_Witness ==
    /\ auth_pc = "calling"
    /\ Len(stack) = 1
    /\ Top.phase = "returned"
    /\ Top.returns = 1
    /\ answers = << 500 >>
    /\ logins = << >>
    /\ Len(sent) = 1

\* ------------------------------------------------------------------ C14
\* The login calls made for response i, and the replays of request i.
LoginsOf(i) == {k \in 1..Len(logins) : logins[k].of = i}

ReplaysOf(i) == {j \in 1..Len(sent) : sent[j].replay_of = i}

\* The hook has ended on response i: the frame of request i has its return
\* value, or is gone.
HookOver(i) ==
    /\ i <= Len(answers)
    /\ \A n \in 1..Len(stack) : stack[n].idx = i => stack[n].phase = "returned"

\* C14: for each 401 response there is at most one login call and at most one
\* replay; a replay is sent only once the login call has returned; and when
\* the hook has ended, exactly one login call was made, followed by exactly
\* one replay if it returned and by none if it raised.
C14_OneLoginThenReplay ==
    \A i \in 1..Len(answers) :
        answers[i] = 401 =>
            /\ Cardinality(LoginsOf(i)) <= 1
            /\ Cardinality(ReplaysOf(i)) <= 1
            /\ \A j \in ReplaysOf(i) :
                   \E k \in LoginsOf(i) : logins[k].state = "returned"
            /\ HookOver(i) =>
                  /\ Cardinality(LoginsOf(i)) = 1
                  /\ \A k \in LoginsOf(i) :
                        Cardinality(ReplaysOf(i)) =
                            IF logins[k].state = "returned" THEN 1 ELSE 0

\* C14 as stated, for a session whose login is a function taking the
\* credentials: when the hook has ended on a 401 response, exactly one login
\* call and exactly one replay were made, the login first.
C14_OneLoginOneReplay ==
    \A i \in 1..Len(answers) :
        (get_session = "callable" /\ answers[i] = 401) =>
            /\ Cardinality(LoginsOf(i)) <= 1
            /\ Cardinality(ReplaysOf(i)) <= 1
            /\ \A j \in ReplaysOf(i) :
                   \E k \in LoginsOf(i) : logins[k].state = "returned"
            /\ HookOver(i) =>
                  /\ Cardinality(LoginsOf(i)) = 1
                  /\ Cardinality(ReplaysOf(i)) = 1

\* Two 401 responses in a row, each followed by its own login and replay.
C14_Witness ==
    /\ auth_pc = "done"
    /\ answers = << 401, 401, 200 >>
    /\ LoginsOf(1) = {1} /\ ReplaysOf(1) = {2}
    /\ LoginsOf(2) = {2} /\ ReplaysOf(2) = {3}

\* ------------------------------------------------------------------ C15
\* C15: when the first response is 401, the login returns and the replay is
\* answered with 200, the caller gets the response of the replay, not the 401.
C15_CallerGetsReplay ==
    (/\ auth_pc = "done"
     /\ Len(answers) >= 2
     /\ answers[1] = 401
     /\ answers[2] = 200) =>
        /\ logins[1].state = "returned"
        /\ received = 2
        /\ answers[received] = 200

\* Such a call has ended.
C15_Witness ==
    /\ auth_pc = "done"
    /\ answers = << 401, 200 >>
    /\ logins[1].state = "returned"
    /\ received = 2

\* ------------------------------------------------------------------ C16
\* C16: with _get_session bound as _create_cookie_auth binds it, every login
\* call gets the stored credentials and, once over, has returned after
\* posting them and leaving its cookies in the jar.
C16_LoginPostsCredentials ==
    get_session = "JIRA.session" =>
        \A k \in 1..Len(logins) :
            /\ logins[k].arg = auth
            /\ logins[k].state # "running" =>
                  /\ logins[k].state = "returned"
                  /\ logins[k].posted
                  /\ logins[k].jar # None

\* ------------------------------------------------------------------ C17
\* C17: a login call that raised ends the caller's request with that
\* exception; no replay of the request was sent, no response is handed to
\* the caller, and no login call follows.
C17_LoginFailurePropagates ==
    \A k \in 1..Len(logins) :
        logins[k].state = "raised" =>
            /\ auth_pc = "raised"
            /\ auth_error \in LoginOutcomes(get_session) \ {"ok"}
            /\ stack = << >>
            /\ received = None
            /\ ReplaysOf(logins[k].of) = {}
            /\ k = Len(logins)

\* The login for the second 401 raised, after a first login and replay.
C17_Witness ==
    /\ Len(logins) = 2
    /\ logins[1].state = "returned"
    /\ logins[2].state = "raised"
    /\ auth_error = "LoginError"
    /\ Len(sent) = 2

\* ------------------------------------------------------------------ C20
\* C20: a replay has the method, URL and body of the request it replays, and
\* its Cookie header is the one made from the jar as the login left it,
\* whatever Cookie header the original had.
C20_ReplayDiffersOnlyInCookies ==
    \A j \in 1..Len(sent) :
        sent[j].replay_of # None =>
            /\ sent[j].method = sent[sent[j].replay_of].method
            /\ sent[j].url = sent[sent[j].replay_of].url
            /\ sent[j].body = sent[sent[j].replay_of].body
            /\ \A k \in LoginsOf(sent[j].replay_of) :
                  sent[j].Cookie = logins[k].jar

\* A POST with a body sent with cookie 1 and replayed with cookie 2.
C20_Witness ==
    /\ Len(sent) >= 2
    /\ sent[1].method = "POST" /\ sent[1].body = "{...}"
    /\ sent[1].Cookie.JSESSIONID = 1
    /\ sent[2].replay_of = 1
    /\ sent[2].Cookie.JSESSIONID = 2
    /\ cookies.JSESSIONID = 2

AlwaysRejected ==
    /\ auth_pc # "idle"
    /\ \A i \in 1..Len(answers) : answers[i] = 401
    /\ \A k \in 1..Len(logins) : logins[k].state # "raised"

\* The logins that have returned.
Returned == {k \in 1..Len(logins) : logins[k].state = "returned"}

\* C21: while the server answers 401 to every request and the logins
\* succeed, the call never comes back and raises nothing: every request sent,
\* replays included, carries the hook, the k-th login is made for the k-th
\* request, every login that returned is followed by one replay, and no
\* count of logins stops the hook from logging in once more.
C21_NoRetryBound ==
    AlwaysRejected =>
        /\ auth_pc = "calling"
        /\ auth_error = "none"
        /\ received = None
        /\ \A j \in 1..Len(sent) : sent[j].hooks = {"handle_401"}
        /\ \A k \in 1..Len(logins) : logins[k].of = k
        /\ \A j \in 2..Len(sent) : sent[j].replay_of = j - 1
        /\ Len(sent) \in {Cardinality(Returned), Cardinality(Returned) + 1}
        /\ \A f \in 1..Len(stack) : stack[f].phase # "returned"
        /\ (Top.phase = "hook" /\ Len(logins) < MaxLogins) => ENABLED LoginStart

\* As many logins as the exploration follows have returned, each followed by
\* a replay, and the last replay has been answered with a 401 again: the hook
\* is running once more.
C21_Witness ==
    /\ AlwaysRejected
    /\ Len(logins) = MaxLogins
    /\ Cardinality(Returned) = MaxLogins
    /\ Len(sent) = MaxLogins + 1
    /\ Len(answers) = MaxLogins + 1
    /\ Len(stack) = MaxLogins + 1
    /\ Top.phase = "hook"

\* ------------------------------------------------------------------ C22
\* The re-authentication flow of login k is in progress: the login is
\* running, or it has returned and the replay that follows it is not yet
\* sent or not yet answered.
FlowInProgress(k) ==
    \/ logins[k].state = "running"
    \/ /\ logins[k].state = "returned"
       /\ \/ ReplaysOf(logins[k].of) = {}
          \/ \E j \in ReplaysOf(logins[k].of) : j > Len(answers)

\* C22: with one synchronous caller at most one re-authentication flow is in
\* progress at any moment, also while activations of the hook are nested.
C22_OneFlowAtATime ==
    Cardinality({k \in 1..Len(logins) : FlowInProgress(k)}) <= 1

\* The replay of the first flow was answered with a 401 and a second login is
\* running inside the nested activation of the hook.
C22_Witness ==
    /\ Len(logins) = 2
    /\ logins[1].state = "returned"
    /\ logins[2].state = "running"
    /\ ReplaysOf(1) = {2}
    /\ answers = <<401, 401>>
    /\ Len(stack) = 2
    /\ stack[1].phase = "wait"
    /\ FlowInProgress(2)

\* ------------------------------------------------------------------ C23
\* The hook of worker w stands on a 401 answer and has not called the login.
OnUnauthorized(w) ==
    /\ worker_pc[w] = "calling"
    /\ WTop(w).phase = "hook"
    /\ Unauthorized(answers[WTop(w).idx])

\* C23: login and replay are not serialized across the workers of a
\* session: a worker whose hook stands on a 401 can call the login whatever
\* the other workers are doing, and a replay takes the cookies the jar holds
\* when it is sent, whichever login put them there.
C23_LoginsNotSerialized ==
    /\ \A w \in Workers :
          (OnUnauthorized(w) /\ Len(logins) < MaxLogins) => ENABLED WLoginStart(w)
    /\ \A j \in 1..Len(sent) :
          sent[j].replay_of # None =>
              \E k \in 1..Len(logins) :
                  /\ logins[k].state = "returned"
                  /\ sent[j].Cookie = logins[k].jar

\* Both workers got a 401 and each made a login; the login of worker 2
\* returned between the login of worker 1 and its replay, and the replay of
\* worker 1 carries the cookies of worker 2's login, not those its own login
\* left.
C23_Witness ==
    /\ Len(logins) = 2
    /\ logins[1].by = 1 /\ logins[1].state = "returned"
    /\ logins[2].by = 2 /\ logins[2].state = "returned"
    /\ logins[2].before = logins[1].jar
    /\ logins[2].jar # logins[1].jar
    /\ \E j \in ReplaysOf(logins[1].of) :
          /\ sent[j].Cookie = logins[2].jar
          /\ sent[j].Cookie # logins[1].jar

\* ------------------------------------------------------------------ C18
\* C18: in fetch-all mode every request after the first asks for maxResults
\* equal to the maxResults of the first response or, that response having
\* none, to the number of items it carried.
C18_FollowUpPageSize ==
    (FetchAll /\ KeyedEndpoint /\ pc # "start") =>
        \A i \in 2..Len(requests) :
            requests[i].maxResults =
                IF responses[1].maxResults # None
                THEN responses[1].maxResults
                ELSE Len(responses[1].items)

\* ------------------------------------------------------------------ C19
\* The first page was read and led into the concurrent path.
ConcurrentPath ==
    /\ FetchAll /\ KeyedEndpoint
    /\ Len(responses) >= 1
    /\ PageError(items_key, responses[1]).err = "none"
    /\ AsyncCond(responses[1].items, total, is_last)

\* The issuing loop is over: results are being awaited, or the call has ended.
IssuingOver == pc # "async" \/ RangeExhausted

\* The offsets of range(page_start, total, page_size), in order.
PlannedOffsets ==
    [k \in 1..((total - page_start + page_size - 1) \div page_size) |->
        page_start + (k - 1) * page_size]

\* C19: in the concurrent path page_start is the offset of the first request
\* plus page_size; once the issuing is over, which it is before any result
\* is awaited, the requests after the first are exactly one per offset
\* page_start, page_start + page_size, ... below total, in that order, each
\* with maxResults = page_size.
C19_PlannedUpFront ==
    ConcurrentPath =>
        /\ page_start = OffsetOf(requests[1]) + page_size
        /\ collected > 0 => IssuingOver
        /\ IssuingOver =>
              /\ Len(requests) = 1 + Len(PlannedOffsets)
              /\ \A k \in 1..Len(PlannedOffsets) :
                    /\ requests[k + 1].startAt = PlannedOffsets[k]
                    /\ requests[k + 1].maxResults = page_size

\* ------------------------------------------------------------------ C25
\* C25: every request of a call, the first one, the sequential and the
\* concurrent ones, carries the entries of params with their values (the
\* model's entry is expand; params None or empty has none).
C25_ExtraParamsOnEveryRequest ==
    \A i \in 1..Len(requests) : requests[i].expand = params.expand

\* A concurrent call with a filter that has issued three requests.
C25_Witness ==
    /\ pc = "done"
    /\ FetchAll /\ async_class /\ KeyedEndpoint
    /\ params.expand = 1
    /\ Len(requests) = 3
    /\ requests[3].expand = 1
    /\ requests[3].startAt # None

\* A sequential call with a filter that has issued three requests.
C25_WitnessSequential ==
    /\ pc = "done"
    /\ FetchAll /\ ~async_class /\ KeyedEndpoint
    /\ params.expand = 1
    /\ Len(requests) = 3
    /\ requests[3].expand = 1

\* ------------------------------------------------------------------ C26
\* The server answers every request with a non-empty object that holds the
\* items of the window asked for.
AnswersWithWindow ==
    /\ server.shape = "dict"
    /\ server.emptyAt = None /\ server.keylessAt = None /\ server.failAt = None

\* C26: against such a server the sequential fetch-all loop asks for strictly
\* increasing offsets, hence never twice for the same one.
C26_StrictlyIncreasingOffsets ==
    (FetchAll /\ ~async_class /\ KeyedEndpoint /\ AnswersWithWindow) =>
        \A i, j \in 1..Len(requests) :
            i < j => OffsetOf(requests[i]) < OffsetOf(requests[j])

\* ------------------------------------------------------------------ C27
\* C27: a call with params None never ends in the AttributeError of a missing
\* dict, its first request is the one an empty dict gives, and in the
\* concurrent path, once the issuing is over, it has issued one request per
\* planned offset, as it does with an empty dict.
C27_AbsentLikeEmpty ==
    (params.none /\ KeyedEndpoint /\ pc # "start") =>
        /\ error # "AttributeError"
        /\ requests[1] = FirstParams(EmptyDict, startAt, maxResults)
        /\ (ConcurrentPath /\ IssuingOver /\ page_size # 0) =>
              /\ Len(requests) = 1 + Len(PlannedOffsets)
              /\ \A k \in 1..Len(PlannedOffsets) :
                    requests[k + 1] = [EmptyDict EXCEPT !.startAt = PlannedOffsets[k],
                                                        !.maxResults = page_size]

\* ------------------------------------------------------------------ C28
\* C28: every request of a call goes to the URL of the first one, whatever
\* the base the caller passed.
C28_SameEndpoint ==
    \A i \in 1..Len(urls) : urls[i] = urls[1]

\* ------------------------------------------------------------------ C29
\* C29: no step of a call changes the params the caller passed.
C29_ParamsUnchanged == [][params' = params]_vars

\* A sequential call with a filter has ended after three requests: the
\* pagination keys are in the dict of the requests, not in the caller's.
C29_Witness ==
    /\ pc = "done"
    /\ FetchAll /\ ~async_class /\ KeyedEndpoint
    /\ params = [EmptyDict EXCEPT !.expand = 1]
    /\ Len(requests) = 3
    /\ page_params.startAt # None
    /\ page_params.maxResults # None

\* ------------------------------------------------------------------ C30
\* ResultList.__next__ on a list whose counter is current: the new counter
\* and what the call does.  Comparing the counter with a total of None
\* raises TypeError; an index past the end raises IndexError.
ResultListNext(rl, current) ==
    LET c == current + 1
    IN  IF rl.total = None THEN [current |-> c, does |-> "TypeError", item |-> None]
        ELSE IF c > rl.total THEN [current |-> c, does |-> "StopIteration", item |-> None]
        ELSE IF c - 1 >= Len(rl.items)
        THEN [current |-> c, does |-> "IndexError", item |-> None]
        ELSE [current |-> c, does |-> "return", item |-> rl.items[c]]

\* The items returned by repeated calls of next() from the counter current,
\* and what the call that returned none did.
RECURSIVE StepThrough(_, _)
StepThrough(rl, current) ==
    LET n == ResultListNext(rl, current)
    IN  IF n.does # "return" THEN [items |-> << >>, ends |-> n.does]
        ELSE LET rest == StepThrough(rl, n.current)
             IN  [items |-> << n.item >> \o rest.items, ends |-> rest.ends]

\* C30: stepping through the ResultList a call returned, from its initial
\* counter (startAt), gives items of the list and then StopIteration.
C30_NextIsSafe ==
    pc = "done" =>
        /\ StepThrough(result, result.startAt).ends = "StopIteration"
        /\ \A k \in 1..Len(StepThrough(result, result.startAt).items) :
              \E n \in 1..Len(result.items) :
                  StepThrough(result, result.startAt).items[k] = result.items[n]

====
